---- MODULE Spec2Model ----
(***************************************************************************)
(* Model of internal/pkg/parser/load_module.go: module key derivation,     *)
(* single module resolution, directory block loading and the module-block  *)
(* loader with its deduplicated failure list.                              *)
(*                                                                         *)
(* Go strings are modelled as sequences of one-character strings, so that  *)
(* prefix tests, splitting, regular-expression replacement and path        *)
(* cleaning are computed character by character.                           *)
(***************************************************************************)
EXTENDS Integers, Sequences, FiniteSets, TLC

VARIABLES
    e,                  \* the Evaluator: moduleName, moduleMetadata, projectRootPath, modulePath, expanded module blocks
    stopOnHCLError,     \* argument of loadModules
    fs,                 \* the file system: directory path -> files of that directory
    idx,                \* position of the range loop of loadModules
    moduleDefinitions,  \* loadModules: accumulated result
    loadErrors,         \* loadModules: deduplicated moduleLoadErrors
    stderr,             \* lines written to os.Stderr
    calls,              \* log of the loadModule invocations made by loadModules
    pc,                 \* position of loadModules
    kModuleName,        \* getModuleKeyName: receiver's moduleName
    kName,              \* getModuleKeyName: argument
    kResult,            \* getModuleKeyName: returned key
    kPc,
    gStop,              \* getModuleBlocks: stopOnHCLError argument
    gResult,            \* getModuleBlocks: returned (blocks, ignores, err)
    gPc

vars == <<e, stopOnHCLError, fs, idx, moduleDefinitions, loadErrors, stderr, calls, pc,
          kModuleName, kName, kResult, kPc, gStop, gResult, gPc>>

loadVars == <<e, stopOnHCLError, idx, moduleDefinitions, loadErrors, stderr, calls, pc>>
keyVars == <<kModuleName, kName, kResult, kPc>>
blockVars == <<gStop, gResult, gPc>>

\* ------------------------------------------------------------------ bounds
MaxBlocks == 3
MaxLabelLen == 3
MaxFiles == 3

\* ------------------------------------------------------------ Go strings
NIL == "nil"

PathSeparator == "/"

\* strings.HasPrefix
HasPrefix(s, prefix) ==
    /\ Len(s) >= Len(prefix)
    /\ SubSeq(s, 1, Len(prefix)) = prefix

\* strings.TrimPrefix
TrimPrefix(s, prefix) ==
    IF HasPrefix(s, prefix) THEN SubSeq(s, Len(prefix) + 1, Len(s)) ELSE s

RECURSIVE SplitFrom(_, _, _, _)
SplitFrom(s, sep, i, cur) ==
    IF i > Len(s) THEN <<cur>>
    ELSE IF s[i] = sep THEN <<cur>> \o SplitFrom(s, sep, i + 1, <<>>)
    ELSE SplitFrom(s, sep, i + 1, Append(cur, s[i]))

\* strings.Split with a one-character separator; Split("", sep) is [""]
Split(s, sep) == SplitFrom(s, sep, 1, <<>>)

RECURSIVE JoinFrom(_, _, _)
JoinFrom(elems, sep, i) ==
    IF i > Len(elems) THEN <<>>
    ELSE IF i = Len(elems) THEN elems[i]
    ELSE elems[i] \o <<sep>> \o JoinFrom(elems, sep, i + 1)

\* strings.Join
StringsJoin(elems, sep) == JoinFrom(elems, sep, 1)

\* -------------------------------------------------------- regexp \[.+?\]
\* `.` of a Go regular expression matches any character but a newline
DotMatches(c) == c # "\n"

\* ends of the matches of \[.+?\] that start at position i
MatchEnds(s, i) ==
    IF s[i] # "["
    THEN {}
    ELSE {j \in (i + 2)..Len(s) :
            /\ s[j] = "]"
            /\ \A k \in (i + 1)..(j - 1) : DotMatches(s[k])}

Min(S) == CHOOSE x \in S : \A y \in S : x <= y

RECURSIVE ReplaceFrom(_, _)
ReplaceFrom(s, i) ==
    IF i > Len(s) THEN <<>>
    ELSE IF MatchEnds(s, i) # {}
         THEN ReplaceFrom(s, Min(MatchEnds(s, i)) + 1)
         ELSE <<s[i]>> \o ReplaceFrom(s, i + 1)

\* indexRegExp.ReplaceAllString(s, ""): leftmost matches, each the shortest
indexRegExpReplaceAll(s) == ReplaceFrom(s, 1)

\* ------------------------------------------------------ getModuleKeyName
ROOT == <<"r", "o", "o", "t">>
ModuleDot == <<"m", "o", "d", "u", "l", "e", ".">>

\* variant: the separator is added after the last segment too
RECURSIVE KeyNameLoopAlwaysDot(_, _, _)
KeyNameLoopAlwaysDot(modules, i, keyName) ==
    IF i > Len(modules) THEN keyName
    ELSE KeyNameLoopAlwaysDot(modules, i + 1,
            keyName \o TrimPrefix(modules[i], ModuleDot) \o <<".">>)

RECURSIVE KeyNameLoop(_, _, _)
KeyNameLoop(modules, i, keyName) ==
    IF i > Len(modules) THEN keyName
    ELSE KeyNameLoop(modules, i + 1,
            keyName \o TrimPrefix(modules[i], ModuleDot)
                    \o (IF i # Len(modules) THEN <<".">> ELSE <<>>))

getModuleKeyName(moduleName, name) ==
    IF moduleName = ROOT
    THEN indexRegExpReplaceAll(name)
    ELSE indexRegExpReplaceAll(
            KeyNameLoop(Split(moduleName, ":"), 1, <<>>) \o <<".">> \o name)

\* ------------------------------------------------------------ path/filepath
DotDot == <<".", ".">>

RECURSIVE CleanFrom(_, _, _, _)
CleanFrom(segs, i, rooted, out) ==
    IF i > Len(segs) THEN out
    ELSE IF segs[i] = <<>> \/ segs[i] = <<".">>
         THEN CleanFrom(segs, i + 1, rooted, out)
    ELSE IF segs[i] = DotDot
         THEN IF Len(out) > 0 /\ out[Len(out)] # DotDot
              THEN CleanFrom(segs, i + 1, rooted, SubSeq(out, 1, Len(out) - 1))
              ELSE IF rooted
                   THEN CleanFrom(segs, i + 1, rooted, out)
                   ELSE CleanFrom(segs, i + 1, rooted, Append(out, DotDot))
    ELSE CleanFrom(segs, i + 1, rooted, Append(out, segs[i]))

\* filepath.Clean: lexical cleaning of a slash-separated path
Clean(path) ==
    IF path = <<>> THEN <<".">>
    ELSE LET rooted == path[1] = PathSeparator
             out == CleanFrom(Split(path, PathSeparator), 1, rooted, <<>>)
             joined == (IF rooted THEN <<PathSeparator>> ELSE <<>>)
                            \o StringsJoin(out, PathSeparator)
         IN  IF joined = <<>> THEN <<".">> ELSE joined

\* filepath.Join of two elements: empty leading elements are ignored,
\* the rest is joined with the separator and cleaned
Join(a, b) ==
    IF a # <<>> THEN Clean(a \o <<PathSeparator>> \o b)
    ELSE IF b # <<>> THEN Clean(b)
    ELSE <<>>

\* ------------------------------------------------------------- collaborators
\* LoadDirectory(modulePath, stopOnHCLError): the files of the directory, or
\* an error when the directory cannot be read
LoadDirectory(modulePath, stop) ==
    IF modulePath \in DOMAIN fs
    THEN [files |-> fs[modulePath], err |-> NIL]
    ELSE [files |-> <<>>, err |-> "directory error"]

\* LoadBlocksFromFile(file): what the parser returns for the file; a file of
\* the model is the parser's answer for it
LoadBlocksFromFile(file) ==
    [fileBlocks |-> file.blocks, fileIgnores |-> file.ignores, err |-> file.err]

\* ---------------------------------------------------------- getModuleBlocks
HCLWarning(err) == [line |-> "WARNING: HCL error", source |-> <<>>, msg |-> err]

\* block.New(fileBlock, moduleCtx, b, nil) for each block of the file
WrapBlocks(fileBlocks, b) ==
    [k \in 1..Len(fileBlocks) |-> [hcl |-> fileBlocks[k], parent |-> b.ptr]]

\* variant: a parse failure under stopOnHCLError returns what was loaded so far
RECURSIVE FileLoopStopKeepsLoaded(_, _, _, _, _, _, _)
FileLoopStopKeepsLoaded(b, moduleFiles, i, blocks, ignores, out, stop) ==
    IF i > Len(moduleFiles)
    THEN [blocks |-> blocks, ignores |-> ignores, err |-> NIL, out |-> out]
    ELSE LET r == LoadBlocksFromFile(moduleFiles[i]) IN
         IF r.err # NIL
         THEN IF stop
              THEN [blocks |-> blocks, ignores |-> ignores, err |-> r.err, out |-> out]
              ELSE FileLoopStopKeepsLoaded(b, moduleFiles, i + 1, blocks, ignores,
                                           Append(out, HCLWarning(r.err)), stop)
         ELSE FileLoopStopKeepsLoaded(b, moduleFiles, i + 1,
                                      blocks \o WrapBlocks(r.fileBlocks, b),
                                      ignores \o r.fileIgnores, out, stop)

\* variant: the ignores of a file are appended before its error is looked at
RECURSIVE FileLoopKeepsIgnores(_, _, _, _, _, _, _)
FileLoopKeepsIgnores(b, moduleFiles, i, blocks, ignores, out, stop) ==
    IF i > Len(moduleFiles)
    THEN [blocks |-> blocks, ignores |-> ignores, err |-> NIL, out |-> out]
    ELSE LET r == LoadBlocksFromFile(moduleFiles[i]) IN
         IF r.err # NIL
         THEN IF stop
              THEN [blocks |-> <<>>, ignores |-> <<>>, err |-> r.err, out |-> out]
              ELSE FileLoopKeepsIgnores(b, moduleFiles, i + 1, blocks,
                                        ignores \o r.fileIgnores,
                                        Append(out, HCLWarning(r.err)), stop)
         ELSE FileLoopKeepsIgnores(b, moduleFiles, i + 1,
                                   blocks \o WrapBlocks(r.fileBlocks, b),
                                   ignores \o r.fileIgnores, out, stop)

RECURSIVE FileLoop(_, _, _, _, _, _, _)
FileLoop(b, moduleFiles, i, blocks, ignores, out, stop) ==
    IF i > Len(moduleFiles)
    THEN [blocks |-> blocks, ignores |-> ignores, err |-> NIL, out |-> out]
    ELSE LET r == LoadBlocksFromFile(moduleFiles[i]) IN
         IF r.err # NIL
         THEN IF stop
              THEN [blocks |-> <<>>, ignores |-> <<>>, err |-> r.err, out |-> out]
              ELSE FileLoop(b, moduleFiles, i + 1, blocks, ignores,
                            Append(out, HCLWarning(r.err)), stop)
         ELSE FileLoop(b, moduleFiles, i + 1,
                       blocks \o WrapBlocks(r.fileBlocks, b),
                       ignores \o r.fileIgnores, out, stop)

getModuleBlocks(b, modulePath, stop) ==
    LET ld == LoadDirectory(modulePath, stop) IN
    IF ld.err # NIL
    THEN [blocks |-> <<>>, ignores |-> <<>>, err |-> ld.err, out |-> <<>>]
    ELSE FileLoop(b, ld.files, 1, <<>>, <<>>, <<>>, stop)

\* --------------------------------------------------------------- loadModule
NilErr == [kind |-> NIL, source |-> <<>>, msg |-> NIL]
NilDef == [Name |-> <<>>, Path |-> <<>>, Definition |-> 0, Modules |-> <<>>]

PlainError(msg) == [kind |-> "error", source |-> <<>>, msg |-> msg]
moduleLoadError(source, err) == [kind |-> "moduleLoadError", source |-> source, msg |-> err]

RECURSIVE SourceLoop(_, _, _)
SourceLoop(attrs, i, source) ==
    IF i > Len(attrs) THEN source
    ELSE IF attrs[i].name = "source" /\ attrs[i].type = "string"
         THEN SourceLoop(attrs, i + 1, attrs[i].value)
         ELSE SourceLoop(attrs, i + 1, source)

\* the source attribute of the block, "" unless it is a string
blockSource(b) == SourceLoop(b.attrs, 1, <<>>)

\* e.moduleMetadata == nil
NoMetadata == [isNil |-> TRUE, Modules |-> <<>>]

RECURSIVE MetadataLoop(_, _, _)
MetadataLoop(modules, i, name) ==
    IF i > Len(modules) THEN <<>>
    ELSE IF modules[i].Key = name
         THEN Clean(Join(e.projectRootPath, modules[i].Dir))
         ELSE MetadataLoop(modules, i + 1, name)

\* the directory the module metadata gives for the block, "" when there is none
metadataPath(b) ==
    IF e.moduleMetadata # NoMetadata
    THEN MetadataLoop(e.moduleMetadata.Modules, 1, getModuleKeyName(e.moduleName, b.label))
    ELSE <<>>

\* variant: any source that starts with a dot counts as relative
isLocalSourceDotOnly(source) == HasPrefix(source, <<".">>)

\* the source is a path relative to the calling module
isLocalSource(source) ==
    \/ HasPrefix(source, <<".", PathSeparator>>)
    \/ HasPrefix(source, <<".", ".", PathSeparator>>)

\* variant: the relative source is joined to the project root
localPathFromRoot(source) == Join(e.projectRootPath, source)

\* combine the current calling module with the relative source of the module
localPath(source) == Join(e.modulePath, source)

\* variant: the relative-path check comes before the metadata lookup
resolveModulePathLocalFirst(b, source) ==
    IF ~isLocalSource(source)
    THEN [modulePath |-> <<>>, err |-> moduleLoadError(source, "missing source code")]
    ELSE LET fromMetadata == metadataPath(b) IN
         IF fromMetadata # <<>>
         THEN [modulePath |-> fromMetadata, err |-> NilErr]
         ELSE [modulePath |-> localPath(source), err |-> NilErr]

\* lines 127-153: the directory of the module, or the error of line 145
resolveModulePath(b, source) ==
    LET fromMetadata == metadataPath(b) IN
    IF fromMetadata # <<>>
    THEN [modulePath |-> fromMetadata, err |-> NilErr]
    ELSE IF ~isLocalSource(source)
         THEN [modulePath |-> <<>>, err |-> moduleLoadError(source, "missing source code")]
         ELSE [modulePath |-> localPath(source), err |-> NilErr]

loadModule(b, stop) ==
    IF b.label = <<>>
    THEN [def |-> NilDef, err |-> PlainError("module without label"), out |-> <<>>]
    ELSE LET source == blockSource(b) IN
    IF source = <<>>
    THEN [def |-> NilDef, err |-> PlainError("could not read module source attribute"),
          out |-> <<>>]
    ELSE LET resolved == resolveModulePath(b, source) IN
    IF resolved.err # NilErr
    THEN [def |-> NilDef, err |-> resolved.err, out |-> <<>>]
    ELSE LET modulePath == resolved.modulePath
             got == getModuleBlocks(b, modulePath, stop)
         IN  IF got.err # NIL
             THEN [def |-> NilDef, err |-> moduleLoadError(source, got.err), out |-> got.out]
             ELSE [def |-> [Name |-> b.label,
                            Path |-> modulePath,
                            Definition |-> b.ptr,
                            Modules |-> << [rootPath |-> e.projectRootPath,
                                            modulePath |-> modulePath,
                                            blocks |-> got.blocks,
                                            ignores |-> got.ignores] >>],
                   err |-> NilErr,
                   out |-> got.out]

\* --------------------------------------------------------------- loadModules
\* variant: every failure is recorded
appendLoadErrorAlways(errors, loadErr) == Append(errors, loadErr)

\* lines 72-81: record the failure unless one with the same source is recorded
appendLoadError(errors, loadErr) ==
    IF \E k \in 1..Len(errors) : errors[k].source = loadErr.source
    THEN errors
    ELSE Append(errors, loadErr)

FailedWarning(err) ==
    [line |-> "WARNING: Failed to load module", source |-> <<>>, msg |-> err.msg]

ForgotInitWarning ==
    [line |-> "WARNING: Did you forget to 'terraform init'?", source |-> <<>>, msg |-> NIL]

SourceLine(err) == [line |-> " - ", source |-> err.source, msg |-> NIL]

\* lines 90-95: the consolidated warning
reportLoadErrors(errors) ==
    IF Len(errors) > 0
    THEN <<ForgotInitWarning>> \o [k \in 1..Len(errors) |-> SourceLine(errors[k])]
    ELSE <<>>

moduleBlock == e.expanded[idx]

InLoop == pc = "loop" /\ idx <= Len(e.expanded)

Called(b, r) == Append(calls, [ptr |-> b.ptr, def |-> r.def, err |-> r.err])

\* variant: the label is not looked at before loadModule is called
SkipEmptyLabelWarns ==
    /\ InLoop
    /\ moduleBlock.label = <<>>
    /\ LET r == loadModule(moduleBlock, stopOnHCLError) IN
        /\ calls' = Called(moduleBlock, r)
        /\ stderr' = stderr \o r.out \o <<FailedWarning(r.err)>>
    /\ idx' = idx + 1
    /\ UNCHANGED <<e, stopOnHCLError, fs, moduleDefinitions, loadErrors, pc>>
    /\ UNCHANGED <<keyVars, blockVars>>

\* lines 65-67
SkipEmptyLabel ==
    /\ InLoop
    /\ moduleBlock.label = <<>>
    /\ idx' = idx + 1
    /\ UNCHANGED <<e, stopOnHCLError, fs, moduleDefinitions, loadErrors, stderr, calls, pc>>
    /\ UNCHANGED <<keyVars, blockVars>>

\* lines 68, 87
ModuleLoaded ==
    /\ InLoop
    /\ moduleBlock.label # <<>>
    /\ LET r == loadModule(moduleBlock, stopOnHCLError) IN
        /\ r.err.kind = NIL
        /\ calls' = Called(moduleBlock, r)
        /\ stderr' = stderr \o r.out
        /\ moduleDefinitions' = Append(moduleDefinitions, r.def)
    /\ idx' = idx + 1
    /\ UNCHANGED <<e, stopOnHCLError, fs, loadErrors, pc>>
    /\ UNCHANGED <<keyVars, blockVars>>

\* variant: a load failure ends the loop
ModuleLoadFailedBreak ==
    /\ InLoop
    /\ moduleBlock.label # <<>>
    /\ LET r == loadModule(moduleBlock, stopOnHCLError) IN
        /\ r.err.kind = "moduleLoadError"
        /\ calls' = Called(moduleBlock, r)
        /\ stderr' = stderr \o r.out \o reportLoadErrors(appendLoadError(loadErrors, r.err))
        /\ loadErrors' = appendLoadError(loadErrors, r.err)
    /\ pc' = "done"
    /\ UNCHANGED <<e, stopOnHCLError, fs, idx, moduleDefinitions>>
    /\ UNCHANGED <<keyVars, blockVars>>

\* lines 68-83
ModuleLoadFailed ==
    /\ InLoop
    /\ moduleBlock.label # <<>>
    /\ LET r == loadModule(moduleBlock, stopOnHCLError) IN
        /\ r.err.kind = "moduleLoadError"
        /\ calls' = Called(moduleBlock, r)
        /\ stderr' = stderr \o r.out
        /\ loadErrors' = appendLoadError(loadErrors, r.err)
    /\ idx' = idx + 1
    /\ UNCHANGED <<e, stopOnHCLError, fs, moduleDefinitions, pc>>
    /\ UNCHANGED <<keyVars, blockVars>>

\* lines 68-71, 84-85
ModuleWarned ==
    /\ InLoop
    /\ moduleBlock.label # <<>>
    /\ LET r == loadModule(moduleBlock, stopOnHCLError) IN
        /\ r.err.kind = "error"
        /\ calls' = Called(moduleBlock, r)
        /\ stderr' = stderr \o r.out \o <<FailedWarning(r.err)>>
    /\ idx' = idx + 1
    /\ UNCHANGED <<e, stopOnHCLError, fs, moduleDefinitions, loadErrors, pc>>
    /\ UNCHANGED <<keyVars, blockVars>>

\* lines 90-97
Return ==
    /\ pc = "loop"
    /\ idx > Len(e.expanded)
    /\ stderr' = stderr \o reportLoadErrors(loadErrors)
    /\ pc' = "done"
    /\ UNCHANGED <<e, stopOnHCLError, fs, idx, moduleDefinitions, loadErrors, calls>>
    /\ UNCHANGED <<keyVars, blockVars>>

\* ------------------------------------------------------------------- inputs
SeqsUpTo(S, n) == UNION {[1..k -> S] : k \in 0..n}

ProjectRoot == <<"/", "p", "r", "o", "j">>
ModuleADir == <<"/", "p", "r", "o", "j", "/", "m", "o", "d", "u", "l", "e", "s", "/", "a">>
ModuleAName == <<"m", "o", "d", "u", "l", "e", ".", "a", "[", "0", "]">>

GitSource == <<"g", "i", "t", ":", ":", "x">>
S3Source == <<"s", "3", ":", ":", "b">>
ChildSource == <<".", "/", "c", "h", "i", "l", "d">>
HiddenSource == <<".", "h", "/", "m">>
SharedSource == <<".", ".", "/", "s", "h", "a", "r", "e", "d">>

StringAttr(name, value) == [name |-> name, type |-> "string", value |-> value]
NumberAttr(name, value) == [name |-> name, type |-> "number", value |-> value]

\* module blocks as expandBlocks returns them, before they get their identity
BlockPool ==
    { [label |-> <<"x">>, attrs |-> <<StringAttr("source", GitSource)>>],
      [label |-> <<"c", "[", "0", "]">>, attrs |-> <<NumberAttr("count", <<"2">>), StringAttr("source", ChildSource)>>],
      [label |-> <<"s">>, attrs |-> <<StringAttr("source", SharedSource)>>],
      [label |-> <<>>, attrs |-> <<StringAttr("source", ChildSource)>>],
      [label |-> <<"n">>, attrs |-> <<NumberAttr("source", <<"1">>)>>],
      [label |-> <<"r">>, attrs |-> <<StringAttr("source", S3Source)>>],
      [label |-> <<"h">>, attrs |-> <<StringAttr("source", HiddenSource)>>] }

\* the k-th expanded instance is a block of its own
Instances(protos) ==
    [k \in 1..Len(protos) |->
        [ptr |-> k, label |-> protos[k].label, attrs |-> protos[k].attrs]]

Metadata ==
    [isNil |-> FALSE,
     Modules |-> << [Key |-> <<"x">>, Dir |-> <<"v", "e", "n", "d", "o", "r", "/", "x">>],
                    [Key |-> <<"a", ".", "x">>, Dir |-> <<"v", "e", "n", "d", "o", "r", "/", "a", "x">>],
                    [Key |-> <<"c">>, Dir |-> <<"g", "o", "n", "e">>],
                    [Key |-> <<"x">>, Dir |-> <<"d", "u", "p">>] >>]

MetadataPool == {NoMetadata, Metadata}

\* the root module, and a module one level down at another directory
ContextPool ==
    { [moduleName |-> ROOT, modulePath |-> ProjectRoot],
      [moduleName |-> ModuleAName, modulePath |-> ModuleADir] }

FileOne == [blocks |-> <<"resource.a", "resource.b">>, ignores |-> <<"ignore.1">>, err |-> NIL]
FileTwo == [blocks |-> <<"variable.v">>, ignores |-> <<>>, err |-> NIL]
FileNoBlocks == [blocks |-> <<>>, ignores |-> <<"ignore.2">>, err |-> NIL]
FileBroken == [blocks |-> <<>>, ignores |-> <<>>, err |-> "syntax error"]
FilePartial == [blocks |-> <<"output.o">>, ignores |-> <<"ignore.3">>, err |-> "unsupported block"]

FilePool == {FileOne, FileTwo, FileNoBlocks, FileBroken, FilePartial}

ProjectFiles ==
    (<<"/", "p", "r", "o", "j", "/", "v", "e", "n", "d", "o", "r", "/", "x">> :> <<FileOne>>)
    @@ (<<"/", "p", "r", "o", "j", "/", "v", "e", "n", "d", "o", "r", "/", "a", "x">> :> <<FileTwo>>)
    @@ (<<"/", "p", "r", "o", "j", "/", "c", "h", "i", "l", "d">> :> <<FileOne, FileTwo>>)
    @@ (<<"/", "p", "r", "o", "j", "/", "m", "o", "d", "u", "l", "e", "s", "/", "a", "/", "c", "h", "i", "l", "d">> :> <<FileTwo, FilePartial, FileOne>>)
    @@ (<<"/", "p", "r", "o", "j", "/", "m", "o", "d", "u", "l", "e", "s", "/", "s", "h", "a", "r", "e", "d">> :> <<FileNoBlocks>>)

IdleEvaluator ==
    [moduleName |-> ROOT, moduleMetadata |-> NoMetadata, projectRootPath |-> ProjectRoot,
     modulePath |-> ProjectRoot, expanded |-> <<>>]

LoadIdle ==
    /\ e = IdleEvaluator
    /\ stopOnHCLError = FALSE
    /\ idx = 0
    /\ moduleDefinitions = <<>>
    /\ loadErrors = <<>>
    /\ stderr = <<>>
    /\ calls = <<>>
    /\ pc = "idle"

KeyIdle ==
    /\ kModuleName = <<>>
    /\ kName = <<>>
    /\ kResult = <<>>
    /\ kPc = "idle"

BlocksIdle ==
    /\ gStop = FALSE
    /\ gResult = [blocks |-> <<>>, ignores |-> <<>>, err |-> NIL, out |-> <<>>]
    /\ gPc = "idle"

\* ---------------------------------------------- specification: loadModules
Init ==
    /\ \E protos \in SeqsUpTo(BlockPool, MaxBlocks), ctx \in ContextPool, md \in MetadataPool :
          e = [moduleName |-> ctx.moduleName,
               moduleMetadata |-> md,
               projectRootPath |-> ProjectRoot,
               modulePath |-> ctx.modulePath,
               expanded |-> Instances(protos)]
    /\ stopOnHCLError \in BOOLEAN
    /\ fs = ProjectFiles
    /\ idx = 1
    /\ moduleDefinitions = <<>>
    /\ loadErrors = <<>>
    /\ stderr = <<>>
    /\ calls = <<>>
    /\ pc = "loop"
    /\ KeyIdle
    /\ BlocksIdle

Next ==
    \/ SkipEmptyLabel
    \/ ModuleLoaded
    \/ ModuleLoadFailed
    \/ ModuleWarned
    \/ Return

Spec == Init /\ [][Next]_vars

\* ----------------------------------------- specification: getModuleKeyName
KeyAlphabet == {"c", "[", "]", "\n"}

IndexedLabel == <<"x", "[", "0", "]", "[", "1", "]">>
KeyedContext == <<"m", "o", "d", "u", "l", "e", ".", "a", "[", "\"", "k", "]", "\"", "]">>

KeyLabels ==
    (SeqsUpTo(KeyAlphabet, MaxLabelLen) \ {<<>>}) \cup {IndexedLabel}

KeyContexts ==
    { ROOT,
      <<>>,
      <<"m", "o", "d", "u", "l", "e", ".", "a">>,
      <<"m", "o", "d", "u", "l", "e", ".", "a", ":", "m", "o", "d", "u", "l", "e", ".", "b", "[", "0", "]">>,
      <<"a", "[", "0", "]", "[", "1", "]", ":", "m", "o", "d", "u", "l", "e", ".">>,
      <<"m", "o", "d", "u", "l", "e", ".", "a", "[", "0">>,
      KeyedContext }

KeyInit ==
    /\ kModuleName \in KeyContexts
    /\ kName \in KeyLabels
    /\ kResult = <<>>
    /\ kPc = "call"
    /\ fs = <<>>
    /\ LoadIdle
    /\ BlocksIdle

KeyCall ==
    /\ kPc = "call"
    /\ kResult' = getModuleKeyName(kModuleName, kName)
    /\ kPc' = "done"
    /\ UNCHANGED <<kModuleName, kName, fs>>
    /\ UNCHANGED <<loadVars, blockVars>>

KeyNext == KeyCall

SpecKey == KeyInit /\ [][KeyNext]_vars

\* ------------------------------------------ specification: getModuleBlocks
ModuleDir == <<"/", "p", "r", "o", "j", "/", "m">>

OwningBlock ==
    [ptr |-> 1, label |-> <<"m">>, attrs |-> <<StringAttr("source", <<".", "/", "m">>)>>]

BlocksInit ==
    /\ \/ fs = <<>>
       \/ \E files \in SeqsUpTo(FilePool, MaxFiles) : fs = (ModuleDir :> files)
    /\ gStop \in BOOLEAN
    /\ gResult = [blocks |-> <<>>, ignores |-> <<>>, err |-> NIL, out |-> <<>>]
    /\ gPc = "call"
    /\ LoadIdle
    /\ KeyIdle

BlocksCall ==
    /\ gPc = "call"
    /\ gResult' = getModuleBlocks(OwningBlock, ModuleDir, gStop)
    /\ gPc' = "done"
    /\ UNCHANGED <<gStop, fs>>
    /\ UNCHANGED <<loadVars, keyVars>>

BlocksNext == BlocksCall

SpecBlocks == BlocksInit /\ [][BlocksNext]_vars

\* =================================================================== claims
Range(s) == {s[k] : k \in DOMAIN s}

Max(S) == CHOOSE x \in S : \A y \in S : y <= x

RECURSIVE Flatten(_)
Flatten(ss) == IF Len(ss) = 0 THEN <<>> ELSE Head(ss) \o Flatten(Tail(ss))

\* the block instance a logged call was made for
BlockOf(call) == e.expanded[call.ptr]

\* the string value of the block's source attribute, "" when it has none
DeclaredSource(b) ==
    LET S == {k \in DOMAIN b.attrs : b.attrs[k].name = "source" /\ b.attrs[k].type = "string"}
    IN  IF S = {} THEN <<>> ELSE b.attrs[Max(S)].value

\* the metadata entries whose Key is the key name of the block
MatchingEntries(b) ==
    {k \in DOMAIN e.moduleMetadata.Modules :
        e.moduleMetadata.Modules[k].Key = getModuleKeyName(e.moduleName, b.label)}

\* the string starts with "./" or "../"
BeginsRelative(s) ==
    \/ Len(s) >= 2 /\ s[1] = "." /\ s[2] = "/"
    \/ Len(s) >= 3 /\ s[1] = "." /\ s[2] = "." /\ s[3] = "/"

LoadFailures == {k \in DOMAIN calls : calls[k].err.kind = "moduleLoadError"}

SourceLines(source) ==
    {n \in DOMAIN stderr : stderr[n].line = " - " /\ stderr[n].source = source}

\* C1: the load failures of one loadModules call hold each failing source
\* at most once: every instance that failed with a moduleLoadError has exactly
\* one entry with its source in loadErrors, exactly one line for it in the
\* consolidated warning once the call is over, and is not among the returned
\* ModuleDefinitions.
C1_DedupBySource ==
    /\ \A j, k \in DOMAIN loadErrors :
          loadErrors[j].source = loadErrors[k].source => j = k
    /\ \A k \in LoadFailures :
          /\ Cardinality({j \in DOMAIN loadErrors :
                            loadErrors[j].source = calls[k].err.source}) = 1
          /\ \A d \in DOMAIN moduleDefinitions :
                moduleDefinitions[d].Definition # calls[k].ptr
          /\ pc = "done" => Cardinality(SourceLines(calls[k].err.source)) = 1

C1_Witness ==
    /\ pc = "done"
    /\ \E j, k \in LoadFailures :
          /\ j # k
          /\ calls[j].ptr # calls[k].ptr
          /\ calls[j].err.source = S3Source
          /\ calls[k].err.source = S3Source

VendorXDir == <<"/", "p", "r", "o", "j", "/", "v", "e", "n", "d", "o", "r", "/", "x">>

\* C2: when the metadata has an entry whose Key is getModuleKeyName(label),
\* loadModule takes clean(join(projectRoot, Dir)) of the first such entry for
\* any non-empty source, never fails with "missing source code", and, when
\* that directory loads, returns a ModuleDefinition whose Path is it.
C2_MetadataPriority ==
    \A k \in DOMAIN calls :
        LET b == BlockOf(calls[k])
            M == MatchingEntries(b)
        IN  (M # {} /\ DeclaredSource(b) # <<>>) =>
              LET dir == Clean(Join(e.projectRootPath, e.moduleMetadata.Modules[Min(M)].Dir))
              IN  /\ calls[k].err.msg # "missing source code"
                  /\ getModuleBlocks(b, dir, stopOnHCLError).err = NIL =>
                        /\ calls[k].err.kind = NIL
                        /\ calls[k].def.Path = dir

C2_Witness ==
    \E k \in DOMAIN calls :
        /\ DeclaredSource(BlockOf(calls[k])) = GitSource
        /\ MatchingEntries(BlockOf(calls[k])) # {}
        /\ calls[k].err.kind = NIL
        /\ calls[k].def.Path = VendorXDir

\* C3: without a matching metadata entry (no metadata, or none with the
\* block's key), a non-empty source that does not begin with "./" or "../"
\* makes loadModule fail with moduleLoadError{source, "missing source code"}
\* and return no ModuleDefinition.
C3_LocalFallbackRejection ==
    \A k \in DOMAIN calls :
        LET b == BlockOf(calls[k])
            source == DeclaredSource(b)
        IN  (MatchingEntries(b) = {} /\ source # <<>> /\ ~BeginsRelative(source)) =>
              /\ calls[k].err = [kind |-> "moduleLoadError", source |-> source,
                                 msg |-> "missing source code"]
              /\ calls[k].def = NilDef
              /\ \A d \in DOMAIN moduleDefinitions :
                    moduleDefinitions[d].Definition # calls[k].ptr

C3_Witness ==
    /\ e.moduleMetadata # NoMetadata
    /\ \E j, k \in DOMAIN calls :
          /\ DeclaredSource(BlockOf(calls[j])) = HiddenSource
          /\ calls[j].err.msg = "missing source code"
          /\ DeclaredSource(BlockOf(calls[k])) = S3Source
          /\ calls[k].err.msg = "missing source code"

Processed == [k \in 1..(idx - 1) |-> k]

HasLabel(k) == e.expanded[k].label # <<>>

Succeeded(call) == call.err.kind = NIL

\* C4: loadModules does not stop at a failed block: the instances passed to
\* loadModule are exactly the processed ones with a non-empty label, each
\* once and in order, whatever the earlier outcomes; the result is the
\* ModuleDefinitions of the calls that succeeded, in that order; and the
\* call ends only after every instance was processed.
C4_NeverAborts ==
    /\ [k \in DOMAIN calls |-> calls[k].ptr] = SelectSeq(Processed, HasLabel)
    /\ LET ok == SelectSeq(calls, Succeeded)
       IN  moduleDefinitions = [k \in DOMAIN ok |-> ok[k].def]
    /\ \A k \in DOMAIN calls : Succeeded(calls[k]) <=> calls[k].def # NilDef
    /\ pc = "done" => idx = Len(e.expanded) + 1

C4_Witness ==
    /\ pc = "done"
    /\ \E i, j, k \in DOMAIN calls :
          /\ i < j /\ j < k
          /\ calls[i].err.kind = "moduleLoadError"
          /\ calls[j].err.kind = "error"
          /\ Succeeded(calls[k])
          /\ moduleDefinitions = <<calls[k].def>>

EmptyLabelled == {k \in DOMAIN e.expanded : e.expanded[k].label = <<>>}

\* C8: an instance with an empty label is never passed to loadModule and
\* leaves no trace: no call, no ModuleDefinition, and the step that
\* processes it changes neither the result, the load failures nor stderr.
C8_EmptyLabelSkipped ==
    /\ [](\A k \in EmptyLabelled :
            /\ \A c \in DOMAIN calls : calls[c].ptr # k
            /\ \A d \in DOMAIN moduleDefinitions : moduleDefinitions[d].Definition # k)
    /\ [][(InLoop /\ moduleBlock.label = <<>>) =>
            UNCHANGED <<moduleDefinitions, loadErrors, stderr, calls>>]_vars

C8_Witness ==
    /\ pc = "done"
    /\ EmptyLabelled # {}
    /\ Len(calls) >= 1
    /\ Len(calls) + Cardinality(EmptyLabelled) = Len(e.expanded)
    /\ \A n \in DOMAIN stderr : stderr[n].line # "WARNING: Failed to load module"

SharedDir == <<"/", "p", "r", "o", "j", "/", "m", "o", "d", "u", "l", "e", "s", "/", "s", "h", "a", "r", "e", "d">>
ChildName == <<"c", "h", "i", "l", "d">>

\* C9: without a matching metadata entry, a source that begins with "./" or
\* "../" resolves to join(e.modulePath, source), the directory of the module
\* that declares the block: "../shared" from /proj/modules/a gives
\* /proj/modules/shared, and "./child" gives join(e.modulePath, "child").
C9_LocalRelativeResolution ==
    \A k \in DOMAIN calls :
        LET b == BlockOf(calls[k])
            source == DeclaredSource(b)
            path == calls[k].def.Path
        IN  (MatchingEntries(b) = {} /\ BeginsRelative(source) /\ Succeeded(calls[k])) =>
              /\ path = Join(e.modulePath, source)
              /\ (e.modulePath = ModuleADir /\ source = SharedSource) => path = SharedDir
              /\ source = ChildSource => path = Join(e.modulePath, ChildName)

C9_Witness ==
    /\ e.modulePath = ModuleADir
    /\ e.modulePath # e.projectRootPath
    /\ \E j, k \in DOMAIN calls :
          /\ DeclaredSource(BlockOf(calls[j])) = SharedSource
          /\ Succeeded(calls[j])
          /\ calls[j].def.Path = SharedDir
          /\ DeclaredSource(BlockOf(calls[k])) = ChildSource
          /\ MatchingEntries(BlockOf(calls[k])) = {}
          /\ Succeeded(calls[k])

\* ---------------------------------------------------------- getModuleBlocks
Enumerated == gPc = "done" /\ ModuleDir \in DOMAIN fs

ModuleFiles == fs[ModuleDir]

ParseFailed(file) == file.err # NIL

Parsed(file) == file.err = NIL

FailedFiles == {k \in DOMAIN ModuleFiles : ParseFailed(ModuleFiles[k])}

ParsedFiles == SelectSeq(ModuleFiles, Parsed)

\* C5: over a directory that was enumerated and has a file that fails to
\* parse: with stopOnHCLError=false the result is no error and the blocks and
\* ignores of the files that parsed, in enumeration order; with
\* stopOnHCLError=true it is no blocks, no ignores and the first parse failure.
C5_PartialFailure ==
    (Enumerated /\ FailedFiles # {}) =>
        IF gStop
        THEN /\ gResult.blocks = <<>>
             /\ gResult.ignores = <<>>
             /\ gResult.err = ModuleFiles[Min(FailedFiles)].err
        ELSE /\ gResult.err = NIL
             /\ [k \in DOMAIN gResult.blocks |-> gResult.blocks[k].hcl]
                    = Flatten([k \in DOMAIN ParsedFiles |-> ParsedFiles[k].blocks])
             /\ \A k \in DOMAIN gResult.blocks : gResult.blocks[k].parent = OwningBlock.ptr
             /\ gResult.ignores
                    = Flatten([k \in DOMAIN ParsedFiles |-> ParsedFiles[k].ignores])

C5_Witness ==
    /\ Enumerated
    /\ ~gStop
    /\ ModuleFiles = <<FileOne, FileBroken, FileTwo>>
    /\ gResult.err = NIL
    /\ Len(gResult.blocks) = 3
    /\ gResult.ignores = <<"ignore.1">>

\* C10 as stated: with stopOnHCLError=false the ignores the parser returned
\* for a file are in the result even when the parser returned an error for it.
C10_IgnoresUnconditional ==
    (Enumerated /\ ~gStop) =>
        \A k \in DOMAIN ModuleFiles :
            Range(ModuleFiles[k].ignores) \subseteq Range(gResult.ignores)

\* C10 amended: with stopOnHCLError=false an ignore is in the result exactly
\* when it comes from a file the parser returned no error for; what the parser
\* returned along with an error is dropped, ignores included.
C10_IgnoresOfParsedFilesOnly ==
    (Enumerated /\ ~gStop) =>
        /\ \A k \in DOMAIN ModuleFiles :
              IF Parsed(ModuleFiles[k])
              THEN Range(ModuleFiles[k].ignores) \subseteq Range(gResult.ignores)
              ELSE \A ig \in Range(ModuleFiles[k].ignores) :
                      ig \in Range(gResult.ignores) =>
                          \E j \in DOMAIN ModuleFiles :
                              Parsed(ModuleFiles[j]) /\ ig \in Range(ModuleFiles[j].ignores)
        /\ \A ig \in Range(gResult.ignores) :
              \E j \in DOMAIN ModuleFiles :
                  Parsed(ModuleFiles[j]) /\ ig \in Range(ModuleFiles[j].ignores)

C10_Witness ==
    /\ Enumerated
    /\ ~gStop
    /\ ModuleFiles = <<FilePartial, FileOne>>
    /\ gResult.err = NIL
    /\ gResult.ignores = <<"ignore.1">>

\* --------------------------------------------------------- getModuleKeyName
\* the end of the index group that opens at position i: the nearest "]" with
\* at least one character, none of them a line break, between the brackets
GroupEnds(s, i) ==
    {j \in DOMAIN s :
        /\ j > i + 1
        /\ s[j] = "]"
        /\ \A k \in (i + 1)..(j - 1) : s[k] # "\n"
        /\ \A k \in (i + 2)..(j - 1) : s[k] # "]"}

\* the positions inside index groups, the groups taken from left to right
InGroups(s) ==
    LET opens[i \in DOMAIN s] ==
            /\ s[i] = "["
            /\ GroupEnds(s, i) # {}
            /\ \A h \in 1..(i - 1) : opens[h] => \A j \in GroupEnds(s, h) : j < i
    IN  {p \in DOMAIN s :
            \E i \in DOMAIN s : opens[i] /\ i <= p /\ \E j \in GroupEnds(s, i) : p <= j}

WithoutGroups(s) ==
    LET outside(p) == p \notin InGroups(s)
        kept == SelectSeq([p \in DOMAIN s |-> p], outside)
    IN  [k \in DOMAIN kept |-> s[kept[k]]]

NestedContext == <<"m", "o", "d", "u", "l", "e", ".", "a", ":", "m", "o", "d", "u", "l", "e", ".", "b", "[", "0", "]">>
NestedKey == <<"a", ".", "b", ".", "c">>

Segments(moduleName) ==
    LET parts == Split(moduleName, ":")
    IN  [k \in DOMAIN parts |-> TrimPrefix(parts[k], ModuleDot)]

\* C6: for context "root" the key is the label without its index groups (the
\* label itself when it has no bracket); for any other context it is the
\* ":"-separated segments without their "module." prefix, joined with ".",
\* then "." and the label, without the index groups of the whole; context
\* module.a:module.b[0] and label c give a.b.c.
C6_KeyDerivation ==
    kPc = "done" =>
        /\ kModuleName = ROOT =>
              /\ kResult = WithoutGroups(kName)
              /\ Range(kName) \cap {"[", "]"} = {} => kResult = kName
        /\ kModuleName # ROOT =>
              kResult = WithoutGroups(StringsJoin(Segments(kModuleName), ".")
                                        \o <<".">> \o kName)
        /\ (kModuleName = NestedContext /\ kName = <<"c">>) => kResult = NestedKey

C6_Witness ==
    /\ kPc = "done"
    /\ kModuleName = NestedContext
    /\ kName = <<"c">>
    /\ kResult = NestedKey

\* C7 as stated: the returned key holds no "[" and no "]", for every context
\* and every non-empty label, and x[0][1] under root gives x.
C7_NoBrackets ==
    (kPc = "done" /\ kName # <<>>) =>
        /\ Range(kResult) \cap {"[", "]"} = {}
        /\ (kModuleName = ROOT /\ kName = IndexedLabel) => kResult = <<"x">>

====
